---- MODULE Spec2Model ----
(***************************************************************************)
(* The two Tk/paho-mqtt programs of the repository:                        *)
(*   subscriber.py  SubscriberApp  (hashtag follower)                      *)
(*   publisher.py   PublisherApp   (tweet publisher)                       *)
(* A behaviour is one run of one of the two programs (variable program).   *)
(* Three threads are modelled per run: the Tk GUI thread (button handlers, *)
(* the process_queue timer, on_close), the daemon _connect thread started  *)
(* by connect_in_thread, and paho's network thread started by loop_start   *)
(* (on_connect / on_disconnect / on_message callbacks).                    *)
(* update_status calls root.after: on the GUI thread it returns at once;   *)
(* on another thread root.after makes two calls into Tcl (it registers the *)
(* callback, then calls "after"), each handed to the GUI thread: a call    *)
(* begun while root.mainloop() runs waits until the event loop serves it,  *)
(* for ever when the loop ends first; a call begun once root.mainloop()    *)
(* has returned raises RuntimeError.                                       *)
(* Strings are sequences of one-character strings.                         *)
(***************************************************************************)
EXTENDS Integers, Sequences, FiniteSets, TLC

\* ------------------------------------------------------------------ bounds
\* longest raw hashtag enumerated for normalize_topic
MaxLen == 3
\* once this many entries have been put into msg_queue, on_message, subscribe()
\* and unsubscribe() are no longer started (a handler under way still puts)
MaxPuts == 2
\* most client.publish calls in one run of the publisher
MaxPublishes == 2

\* ----------------------------------------------------------------- strings
Alphabet == {" ", "#", "a", "b"}

\* the characters str.strip() removes (those with str.isspace()); a character a
\* TLA+ string cannot hold is written by its escape name, as one character
Whitespace ==
    {" ", "\t", "\n", "\f", "\r", "\\x0b", "\\x1c", "\\x1d", "\\x1e", "\\x1f",
     "\\x85", "\\xa0", "\\u1680", "\\u2000", "\\u2001", "\\u2002", "\\u2003",
     "\\u2004", "\\u2005", "\\u2006", "\\u2007", "\\u2008", "\\u2009", "\\u200a",
     "\\u2028", "\\u2029", "\\u202f", "\\u205f", "\\u3000"}

RECURSIVE LStrip(_)
LStrip(s) ==
    IF s = <<>> THEN s
    ELSE IF Head(s) \in Whitespace THEN LStrip(Tail(s)) ELSE s

RECURSIVE RStrip(_)
RStrip(s) ==
    IF s = <<>> THEN s
    ELSE IF s[Len(s)] \in Whitespace THEN RStrip(SubSeq(s, 1, Len(s) - 1)) ELSE s

\* str.strip()
Strip(s) == RStrip(LStrip(s))

\* the literal "twitter/"
TopicPrefix == <<"t", "w", "i", "t", "t", "e", "r", "/">>

\* a bug normalize_topic could have: lstrip("#") instead of one startswith/slice
normalize_topic_all_hashes(raw_hashtag) ==
    LET RECURSIVE DropHashes(_)
        DropHashes(s) ==
            IF s # <<>> /\ Head(s) = "#" THEN DropHashes(Tail(s)) ELSE s
        tag == Strip(DropHashes(Strip(raw_hashtag)))
    IN  IF tag = <<>> THEN <<>> ELSE TopicPrefix \o tag

\* subscriber.py normalize_topic
normalize_topic(raw_hashtag) ==
    LET tag0 == Strip(raw_hashtag)
        tag  == IF tag0 # <<>> /\ Head(tag0) = "#" THEN Strip(Tail(tag0)) ELSE tag0
    IN  IF tag = <<>> THEN <<>> ELSE TopicPrefix \o tag

\* publisher.py normalize_topic
pub_normalize_topic(raw_hashtag) ==
    LET tag0 == Strip(raw_hashtag)
        tag  == IF tag0 # <<>> /\ Head(tag0) = "#" THEN Strip(Tail(tag0)) ELSE tag0
    IN  IF tag = <<>> THEN <<>> ELSE TopicPrefix \o tag

\* all strings over Alphabet of length n / at most n
StringsOfLen(n) == [1..n -> Alphabet]
StringsUpTo(n) == UNION {StringsOfLen(k) : k \in 0..n}

\* the examples of the specification's section 8
ExTest == <<" ", " ", "#", "T", "e", "s", "t", " ", " ">>
ExHash == <<"#">>
ExTabs == <<"\t", "#", "\n", "x", " ", "y", "\n">>
\* one raw hashtag <c, '#', c, 'a', c> and one <c> per whitespace character c
ExSpaced == {<<c, "#", c, "a", c>> : c \in Whitespace} \cup {<<c>> : c \in Whitespace}
NormInputs == StringsUpTo(MaxLen) \cup {ExTest, ExHash, ExTabs} \cup ExSpaced

\* what the user types into the hashtag entry ("#test" is the initial text).
\* Entries the handlers only read are inputs of the handler's action; the tweet
\* text, which publish_tweet clears, is state.
RawTest == <<"#", "t", "e", "s", "t">>
RawA1   == <<" ", "#", "a", " ">>
RawA2   == <<"a">>
RawNone == <<"#", " ">>
RawInputs == {RawTest, RawA1, RawA2, RawNone}

Payloads == {"hi"}
NoteSubscribed == "[System] Subscribed"
NoteUnsubscribed == "[System] Unsubscribed"

\* CONNACK return codes: 0 accepted, 5 not authorised
RcValues == {0, 5}

\* ------------------------------------------------------------------- state
VARIABLES
    program,       \* "subscriber" | "publisher" | "normalize"
    normIn,        \* normalize_topic's argument  (pure-function runs)
    normOut,       \* <<subscriber result, publisher result>> once applied
    guiPc,         \* position of the GUI thread's current handler
    guiTopic,      \* the handler's local variable topic
    dialog,        \* the modal messagebox the handler is blocked in
    pqPc,          \* position inside process_queue
    guiItem,       \* process_queue's local (topic, payload)
    subscribed,    \* self.subscribed
    msg_queue,     \* self.msg_queue
    messages_box,  \* lines inserted into self.messages_box
    putLog,        \* history: every entry put into msg_queue, in order
    status,        \* text kind last handed to update_status (at its call)
    connPc,        \* position of the _connect thread
    conn,          \* the paho client's connection state
    loopRunning,   \* the network thread exists (loop_start .. loop_stop)
    netPc,         \* position of the network thread's current callback
    ocPending,     \* on_connect: topics of list(self.subscribed) not yet visited
    ocCalls,       \* history: client.subscribe calls of this connection's on_connect
    ocSnapshot,    \* history: self.subscribed when this connection's on_connect
                   \* was called with rc = 0, then the list it took at line 81
    transport,     \* topics the broker holds for the current connection
    tweet_text,    \* publisher: content of self.tweet_text
    publishes,     \* publisher history: <<topic, "connected" or "not connected">>
                   \* of each client.publish call
    closed,        \* root.destroy() has run (guiPc = "closed": mainloop() returned)
    closeRaised    \* history: a call of on_close's try block raised

vars == <<program, normIn, normOut, guiPc, guiTopic, dialog, pqPc, guiItem,
          subscribed, msg_queue, messages_box, putLog, status, connPc, conn,
          loopRunning, netPc, ocPending, ocCalls, ocSnapshot, transport,
          tweet_text, publishes, closed, closeRaised>>

normVars == <<normIn, normOut>>
guiVars  == <<guiPc, guiTopic, dialog>>
pqVars   == <<pqPc, guiItem, messages_box>>
queueVars == <<msg_queue, putLog>>
connVars == <<connPc, conn, loopRunning>>
netVars  == <<netPc, ocPending, ocCalls, ocSnapshot>>
pubVars  == <<tweet_text, publishes>>
subVars  == <<pqVars, subscribed, queueVars, netVars, transport>>
pubFrame == <<pqVars, subscribed, queueVars, ocPending, ocCalls, ocSnapshot, transport>>

\* SubscriberApp.__init__
SubInit ==
    /\ program = "subscriber"
    /\ normIn = <<>> /\ normOut = <<>>
    /\ guiPc = "idle" /\ guiTopic = <<>> /\ dialog = "none"
    /\ pqPc = "wait" /\ guiItem = <<>>
    /\ subscribed = {}
    /\ msg_queue = <<>> /\ messages_box = <<>> /\ putLog = <<>>
    /\ status = "Disconnected"
    /\ connPc = "connect" /\ conn = "none" /\ loopRunning = FALSE
    /\ netPc = "idle" /\ ocPending = {} /\ ocCalls = <<>> /\ ocSnapshot = {}
    /\ transport = {}
    /\ tweet_text = <<>> /\ publishes = <<>>
    /\ closed = FALSE /\ closeRaised = FALSE

\* ------------------------------------------------- subscriber: _connect thread
\* connect_in_thread._connect: client.connect(BROKER, PORT, KEEPALIVE); when it
\* raises, update_status("Connect error: ...") is the thread's last statement
\* (connPc = "failed": in that call or past it)
ConnectCall ==
    /\ program = "subscriber" /\ connPc = "connect"
    /\ \E raises \in BOOLEAN :
         IF raises
         THEN /\ connPc' = "failed" /\ status' = "Connect error"
              /\ UNCHANGED <<conn, transport>>
         ELSE /\ connPc' = "loop_start" /\ conn' = "pending" /\ transport' = {}
              /\ UNCHANGED status
    /\ UNCHANGED <<program, normVars, pubVars, guiVars, pqVars, subscribed, queueVars,
                   loopRunning, netVars, closed, closeRaised>>

\* connect_in_thread._connect: client.loop_start()
LoopStart ==
    /\ program = "subscriber" /\ connPc = "loop_start"
    /\ \E raises \in BOOLEAN :
         IF raises
         THEN /\ connPc' = "failed" /\ status' = "Connect error"
              /\ UNCHANGED loopRunning
         ELSE /\ connPc' = "done" /\ loopRunning' = TRUE
              /\ UNCHANGED status
    /\ UNCHANGED <<program, normVars, pubVars, guiVars, pqVars, subscribed, queueVars,
                   conn, netVars, transport, closed, closeRaised>>

\* ------------------------------------------------- subscriber: network thread
\* the Tk event loop is running and free to serve a call made on another thread
\* (the loop of an open messagebox serves it too)
EventLoopServing == ~closed /\ guiPc \in {"idle", "dialog"} /\ pqPc = "wait"

\* root.mainloop() has returned
MainLoopEnded == guiPc = "closed"

\* where a callback is after its update_status call: waiting for the first call
\* of root.after to be served, or, root.mainloop() having returned, at once past
\* the RuntimeError
AfterCall(waiting, raised) == IF MainLoopEnded THEN raised ELSE waiting

\* where on_connect's loop is after an iteration
OnConnectNext == IF ocPending = {} THEN "idle" ELSE "oc_loop"

\* on_connect, up to its call of update_status; with root.mainloop() returned
\* the RuntimeError of line 79 (outside any try) ends on_connect before the loop
OnConnect(rc) ==
    /\ program = "subscriber" /\ loopRunning /\ netPc = "idle" /\ conn = "pending"
    /\ ocCalls' = <<>> /\ ocPending' = {}
    /\ IF rc = 0
       THEN /\ conn' = "connected" /\ status' = "Connected"
            /\ netPc' = AfterCall("oc_after", "idle")
            /\ ocSnapshot' = subscribed
       ELSE /\ conn' = "refused" /\ status' = "Connect failed"
            /\ netPc' = AfterCall("cb_after", "idle")
            /\ ocSnapshot' = {}
    /\ UNCHANGED <<program, normVars, pubVars, guiVars, pqVars, subscribed, queueVars,
                   connPc, loopRunning, transport, closed, closeRaised>>

\* update_status on the network thread: the event loop serves root.after's
\* first call (the callback is registered); its second call is yet to be made
AfterRegistered ==
    /\ program = "subscriber" /\ EventLoopServing
    /\ netPc \in {"oc_after", "oc_sub_after", "cb_after"}
    /\ netPc' = IF netPc = "oc_after" THEN "oc_after_call"
                ELSE IF netPc = "oc_sub_after" THEN "oc_sub_after_call"
                ELSE "cb_after_call"
    /\ UNCHANGED <<program, normVars, pubVars, guiVars, pqVars, subscribed, queueVars,
                   status, connVars, ocPending, ocCalls, ocSnapshot, transport,
                   closed, closeRaised>>

\* update_status on the network thread: root.after makes its second call.
\* Made while root.mainloop() runs it is queued for the event loop; made once
\* root.mainloop() has returned it raises RuntimeError: line 79 then ends
\* on_connect, the except of lines 85-86 swallows the one of line 84 and the
\* loop goes on.
AfterQueued ==
    /\ program = "subscriber"
    /\ netPc \in {"oc_after_call", "oc_sub_after_call", "cb_after_call"}
    /\ netPc' = IF netPc = "oc_after_call" THEN AfterCall("oc_after_wait", "idle")
                ELSE IF netPc = "oc_sub_after_call"
                     THEN AfterCall("oc_sub_after_wait", OnConnectNext)
                ELSE AfterCall("cb_after_wait", "idle")
    /\ UNCHANGED <<program, normVars, pubVars, guiVars, pqVars, subscribed, queueVars,
                   status, connVars, ocPending, ocCalls, ocSnapshot, transport,
                   closed, closeRaised>>

\* update_status on the network thread: the event loop serves root.after's
\* second call and root.after returns.  (A call queued and not served when the
\* window is destroyed waits for ever, also after root.mainloop() returned.)
AfterReturn ==
    /\ program = "subscriber" /\ EventLoopServing
    /\ netPc \in {"oc_after_wait", "oc_sub_after_wait", "cb_after_wait"}
    /\ netPc' = IF netPc = "oc_after_wait" THEN "oc_list"
                ELSE IF netPc = "oc_sub_after_wait" THEN OnConnectNext
                ELSE "idle"
    /\ UNCHANGED <<program, normVars, pubVars, guiVars, pqVars, subscribed, queueVars,
                   status, connVars, ocPending, ocCalls, ocSnapshot, transport,
                   closed, closeRaised>>

\* on_connect: list(self.subscribed)
OnConnectList ==
    /\ program = "subscriber" /\ netPc = "oc_list"
    /\ ocPending' = subscribed /\ ocSnapshot' = subscribed
    /\ netPc' = IF subscribed = {} THEN "idle" ELSE "oc_loop"
    /\ UNCHANGED <<program, normVars, pubVars, guiVars, pqVars, subscribed, queueVars,
                   status, connVars, ocCalls, transport, closed, closeRaised>>

\* on_connect's loop: what is left to visit after t raised (try inside the loop)
OnConnectAfterRaise(pending) == pending

\* on_connect: one iteration of   for t in list(self.subscribed),  up to its call
\* of update_status (whose RuntimeError the except swallows)
OnConnectSubscribe ==
    /\ program = "subscriber" /\ netPc = "oc_loop"
    /\ \E t \in ocPending, raises \in BOOLEAN :
         LET rest == IF raises THEN OnConnectAfterRaise(ocPending \ {t})
                     ELSE ocPending \ {t}
             next == IF rest = {} THEN "idle" ELSE "oc_loop"
         IN  /\ ocCalls' = Append(ocCalls, <<t, raises>>)
             /\ ocPending' = rest
             /\ IF raises
                THEN /\ netPc' = next
                     /\ UNCHANGED <<transport, status>>
                ELSE /\ transport' = IF conn = "connected" THEN transport \cup {t}
                                     ELSE transport
                     /\ status' = "Subscribed"
                     /\ netPc' = AfterCall("oc_sub_after", next)
    /\ UNCHANGED <<program, normVars, pubVars, guiVars, pqVars, subscribed, queueVars,
                   connVars, ocSnapshot, closed, closeRaised>>

\* on_disconnect, up to its call of update_status
OnDisconnect ==
    /\ program = "subscriber" /\ loopRunning /\ netPc = "idle"
    /\ conn \in {"pending", "connected", "refused"}
    /\ conn' = "none" /\ transport' = {} /\ status' = "Disconnected"
    /\ netPc' = AfterCall("cb_after", "idle")
    /\ ocCalls' = <<>> /\ ocSnapshot' = {}
    /\ UNCHANGED <<program, normVars, pubVars, guiVars, pqVars, subscribed, queueVars,
                   connPc, loopRunning, ocPending, closed, closeRaised>>

\* the network loop reconnecting after a lost connection
Reconnect ==
    /\ program = "subscriber" /\ loopRunning /\ netPc = "idle" /\ conn = "none"
    /\ conn' = "pending"
    /\ UNCHANGED <<program, normVars, pubVars, guiVars, pqVars, subscribed, queueVars,
                   status, connPc, loopRunning, netVars, transport, closed, closeRaised>>

\* on_message
OnMessage(topic, payload) ==
    /\ program = "subscriber" /\ loopRunning /\ netPc = "idle"
    /\ conn = "connected" /\ topic \in transport
    /\ Len(putLog) < MaxPuts
    /\ msg_queue' = Append(msg_queue, <<topic, payload>>)
    /\ putLog' = Append(putLog, <<topic, payload>>)
    /\ UNCHANGED <<program, normVars, pubVars, guiVars, pqVars, subscribed, status,
                   connVars, netVars, transport, closed, closeRaised>>

\* ----------------------------------------------------- subscriber: GUI thread
\* the Tk event loop is free to run a button command
GuiIdle == ~closed /\ guiPc = "idle" /\ pqPc = "wait"

\* a bug subscribe() could have: no membership test before subscribing again
SubscribeKnown_ignored(topic) == FALSE

\* subscribe(): the test   if topic in self.subscribed
SubscribeKnown(topic) == topic \in subscribed

\* a bug the handlers could have: no emptiness test on the normalized topic
TopicRejected_never(topic) == FALSE

\* subscribe() / unsubscribe() / publish_tweet(): the test   if not topic
TopicRejected(topic) == topic = <<>>

\* subscribe(), from reading the entry to the return of client.subscribe(topic)
Subscribe(raw) ==
    /\ program = "subscriber" /\ GuiIdle
    /\ LET topic == normalize_topic(Strip(raw))
       IN  IF TopicRejected(topic)
           THEN /\ guiPc' = "dialog" /\ dialog' = "Empty hashtag"
                /\ UNCHANGED <<guiTopic, transport>>
           ELSE IF SubscribeKnown(topic)
           THEN /\ guiPc' = "dialog" /\ dialog' = "Already subscribed"
                /\ UNCHANGED <<guiTopic, transport>>
           ELSE /\ Len(putLog) < MaxPuts
                /\ \E raises \in BOOLEAN :
                     IF raises
                     THEN /\ guiPc' = "dialog" /\ dialog' = "Subscribe error"
                          /\ UNCHANGED <<guiTopic, transport>>
                     ELSE /\ guiPc' = "sub_add" /\ guiTopic' = topic
                          /\ transport' = IF conn = "connected"
                                          THEN transport \cup {topic} ELSE transport
                          /\ UNCHANGED dialog
    /\ UNCHANGED <<program, normVars, pubVars, pqVars, subscribed, queueVars, status,
                   connVars, netVars, closed, closeRaised>>

\* a bug subscribe() could have: rebinding the set instead of adding to it
SetAdd_rebind(set, topic) == {topic}

\* set.add
SetAdd(set, topic) == set \cup {topic}

\* subscribe(): self.subscribed.add(topic)
SubscribeAdd ==
    /\ program = "subscriber" /\ guiPc = "sub_add"
    /\ subscribed' = SetAdd(subscribed, guiTopic)
    /\ guiPc' = "sub_status"
    /\ UNCHANGED <<program, normVars, pubVars, guiTopic, dialog, pqVars, queueVars, status,
                   connVars, netVars, transport, closed, closeRaised>>

\* subscribe(): update_status("Subscribed to ...")
SubscribeStatus ==
    /\ program = "subscriber" /\ guiPc = "sub_status"
    /\ status' = "Subscribed"
    /\ guiPc' = "sub_put"
    /\ UNCHANGED <<program, normVars, pubVars, guiTopic, dialog, pqVars, subscribed,
                   queueVars, connVars, netVars, transport, closed, closeRaised>>

\* subscribe(): msg_queue.put((topic, "[System] Subscribed"))
SubscribePut ==
    /\ program = "subscriber" /\ guiPc = "sub_put"
    /\ msg_queue' = Append(msg_queue, <<guiTopic, NoteSubscribed>>)
    /\ putLog' = Append(putLog, <<guiTopic, NoteSubscribed>>)
    /\ guiPc' = "idle" /\ guiTopic' = <<>>
    /\ UNCHANGED <<program, normVars, pubVars, dialog, pqVars, subscribed, status,
                   connVars, netVars, transport, closed, closeRaised>>

\* unsubscribe(), from reading the entry to the return of client.unsubscribe(topic)
Unsubscribe(raw) ==
    /\ program = "subscriber" /\ GuiIdle
    /\ LET topic == normalize_topic(Strip(raw))
       IN  IF TopicRejected(topic)
           THEN /\ guiPc' = "dialog" /\ dialog' = "Empty hashtag"
                /\ UNCHANGED <<guiTopic, transport>>
           ELSE IF topic \notin subscribed
           THEN /\ guiPc' = "dialog" /\ dialog' = "Not subscribed"
                /\ UNCHANGED <<guiTopic, transport>>
           ELSE /\ Len(putLog) < MaxPuts
                /\ \E raises \in BOOLEAN :
                     IF raises
                     THEN /\ guiPc' = "dialog" /\ dialog' = "Unsubscribe error"
                          /\ UNCHANGED <<guiTopic, transport>>
                     ELSE /\ guiPc' = "unsub_remove" /\ guiTopic' = topic
                          /\ transport' = IF conn = "connected"
                                          THEN transport \ {topic} ELSE transport
                          /\ UNCHANGED dialog
    /\ UNCHANGED <<program, normVars, pubVars, pqVars, subscribed, queueVars, status,
                   connVars, netVars, closed, closeRaised>>

\* unsubscribe(): self.subscribed.remove(topic)
UnsubscribeRemove ==
    /\ program = "subscriber" /\ guiPc = "unsub_remove"
    /\ subscribed' = subscribed \ {guiTopic}
    /\ guiPc' = "unsub_status"
    /\ UNCHANGED <<program, normVars, pubVars, guiTopic, dialog, pqVars, queueVars, status,
                   connVars, netVars, transport, closed, closeRaised>>

\* unsubscribe(): update_status("Unsubscribed from ...")
UnsubscribeStatus ==
    /\ program = "subscriber" /\ guiPc = "unsub_status"
    /\ status' = "Unsubscribed"
    /\ guiPc' = "unsub_put"
    /\ UNCHANGED <<program, normVars, pubVars, guiTopic, dialog, pqVars, subscribed,
                   queueVars, connVars, netVars, transport, closed, closeRaised>>

\* unsubscribe(): msg_queue.put((topic, "[System] Unsubscribed"))
UnsubscribePut ==
    /\ program = "subscriber" /\ guiPc = "unsub_put"
    /\ msg_queue' = Append(msg_queue, <<guiTopic, NoteUnsubscribed>>)
    /\ putLog' = Append(putLog, <<guiTopic, NoteUnsubscribed>>)
    /\ guiPc' = "idle" /\ guiTopic' = <<>>
    /\ UNCHANGED <<program, normVars, pubVars, dialog, pqVars, subscribed, status,
                   connVars, netVars, transport, closed, closeRaised>>

\* the user dismisses the messagebox; after showerror the handler goes on to
\* update_status("... error: ...", error=True)
Dismiss ==
    /\ program = "subscriber" /\ guiPc = "dialog" /\ pqPc = "wait" /\ ~closed
    /\ status' = IF dialog \in {"Subscribe error", "Unsubscribe error"}
                 THEN dialog ELSE status
    /\ guiPc' = "idle" /\ dialog' = "none"
    /\ UNCHANGED <<program, normVars, pubVars, guiTopic, pqVars, subscribed, queueVars,
                   connVars, netVars, transport, closed, closeRaised>>

\* a bug process_queue could have: taking the newest entry instead of the oldest
QueueGet_newest(q) == <<q[Len(q)], SubSeq(q, 1, Len(q) - 1)>>

\* a bug process_queue could have: a second get() per round, its item discarded
QueueGet_skip(q) == <<Head(q), IF Len(q) > 1 THEN Tail(Tail(q)) ELSE Tail(q)>>

\* queue.Queue.get() as process_queue uses it: <<item, rest>>
QueueGet(q) == <<Head(q), Tail(q)>>

\* process_queue: the timer fires and the loop test  msg_queue.empty()  is made;
\* an empty queue reschedules at once.  Timers run in the Tk event loop, also
\* while a messagebox is open.
PqPoll ==
    /\ program = "subscriber" /\ ~closed
    /\ guiPc \in {"idle", "dialog"} /\ pqPc = "wait"
    /\ pqPc' = IF msg_queue = <<>> THEN "wait" ELSE "get"
    /\ UNCHANGED <<program, normVars, pubVars, guiVars, guiItem, messages_box, subscribed,
                   queueVars, status, connVars, netVars, transport, closed, closeRaised>>

\* process_queue: topic, payload = self.msg_queue.get()   (blocks while empty)
PqGet ==
    /\ program = "subscriber" /\ pqPc = "get"
    /\ msg_queue # <<>>
    /\ guiItem' = QueueGet(msg_queue)[1]
    /\ msg_queue' = QueueGet(msg_queue)[2]
    /\ pqPc' = "insert"
    /\ UNCHANGED <<program, normVars, pubVars, guiVars, messages_box, subscribed, putLog,
                   status, connVars, netVars, transport, closed, closeRaised>>

\* process_queue: the line is inserted into messages_box (its timestamp is not
\* modelled), then the loop test is made again
PqInsert ==
    /\ program = "subscriber" /\ pqPc = "insert"
    /\ messages_box' = Append(messages_box, guiItem)
    /\ guiItem' = <<>>
    /\ pqPc' = IF msg_queue = <<>> THEN "wait" ELSE "get"
    /\ UNCHANGED <<program, normVars, pubVars, guiVars, subscribed, queueVars, status,
                   connVars, netVars, transport, closed, closeRaised>>

\* on_close: self.client.loop_stop() is called; without a network thread it
\* returns at once; when it raises, except Exception: pass skips
\* client.disconnect()
CloseLoopStop ==
    /\ program = "subscriber" /\ GuiIdle
    /\ \E raises \in BOOLEAN :
         IF raises
         THEN guiPc' = "close_destroy" /\ closeRaised' = TRUE
         ELSE /\ guiPc' = IF loopRunning THEN "close_join" ELSE "close_disconnect"
              /\ UNCHANGED closeRaised
    /\ UNCHANGED <<program, normVars, pubVars, guiTopic, dialog, pqVars, subscribed,
                   queueVars, status, connVars, netVars, transport, closed>>

\* on_close: loop_stop() joins the network thread, which ends once no callback
\* is under way
CloseJoin ==
    /\ program = "subscriber" /\ guiPc = "close_join"
    /\ netPc = "idle"
    /\ loopRunning' = FALSE
    /\ guiPc' = "close_disconnect"
    /\ UNCHANGED <<program, normVars, pubVars, guiTopic, dialog, pqVars, subscribed,
                   queueVars, status, connPc, conn, netVars, transport, closed,
                   closeRaised>>

\* on_close: self.client.disconnect(); when it raises, except Exception: pass
CloseDisconnect ==
    /\ program = "subscriber" /\ guiPc = "close_disconnect"
    /\ \E raises \in BOOLEAN :
         IF raises
         THEN /\ closeRaised' = TRUE
              /\ UNCHANGED <<conn, transport>>
         ELSE /\ conn' = "stopped" /\ transport' = {}
              /\ UNCHANGED closeRaised
    /\ guiPc' = "close_destroy"
    /\ UNCHANGED <<program, normVars, pubVars, guiTopic, dialog, pqVars, subscribed,
                   queueVars, status, connPc, loopRunning, netVars, closed>>

\* on_close: self.root.destroy()
CloseDestroy ==
    /\ program = "subscriber" /\ guiPc = "close_destroy"
    /\ closed' = TRUE
    /\ guiPc' = "close_return"
    /\ UNCHANGED <<program, normVars, pubVars, guiTopic, dialog, pqVars, subscribed,
                   queueVars, status, connVars, netVars, transport, closeRaised>>

\* on_close returns and, no window being left, root.mainloop() returns
MainloopReturn ==
    /\ program = "subscriber" /\ guiPc = "close_return"
    /\ guiPc' = "closed"
    /\ UNCHANGED <<program, normVars, pubVars, guiTopic, dialog, pqVars, subscribed,
                   queueVars, status, connVars, netVars, transport, closed, closeRaised>>

\* ------------------------------------------------------------- publisher
Usernames == {<<"a", "n", "o", "n">>, <<" ">>}
\* what the user types into the publisher's hashtag entry
PubRawInputs == {RawTest, RawNone}
Messages == {<<"h", "i">>, <<" ">>}

\* PublisherApp.__init__
PubInit ==
    /\ program = "publisher"
    /\ normIn = <<>> /\ normOut = <<>>
    /\ guiPc = "idle" /\ guiTopic = <<>> /\ dialog = "none"
    /\ pqPc = "wait" /\ guiItem = <<>>
    /\ subscribed = {}
    /\ msg_queue = <<>> /\ messages_box = <<>> /\ putLog = <<>>
    /\ status = "Disconnected"
    /\ connPc = "connect" /\ conn = "none" /\ loopRunning = FALSE
    /\ netPc = "idle" /\ ocPending = {} /\ ocCalls = <<>> /\ ocSnapshot = {}
    /\ transport = {}
    /\ tweet_text = <<>> /\ publishes = <<>>
    /\ closed = FALSE /\ closeRaised = FALSE

\* publisher connect_in_thread._connect: client.connect(BROKER, PORT, KEEPALIVE)
PubConnectCall ==
    /\ program = "publisher" /\ connPc = "connect"
    /\ \E raises \in BOOLEAN :
         IF raises
         THEN /\ connPc' = "failed" /\ status' = "Connect error"
              /\ UNCHANGED conn
         ELSE /\ connPc' = "loop_start" /\ conn' = "pending"
              /\ UNCHANGED status
    /\ UNCHANGED <<program, normVars, pubVars, guiVars, subVars,
                   loopRunning, closed, closeRaised>>

\* publisher connect_in_thread._connect: client.loop_start()
PubLoopStart ==
    /\ program = "publisher" /\ connPc = "loop_start"
    /\ \E raises \in BOOLEAN :
         IF raises
         THEN /\ connPc' = "failed" /\ status' = "Connect error"
              /\ UNCHANGED loopRunning
         ELSE /\ connPc' = "done" /\ loopRunning' = TRUE
              /\ UNCHANGED status
    /\ UNCHANGED <<program, normVars, pubVars, guiVars, subVars, conn, closed, closeRaised>>

\* publisher on_connect, up to its call of update_status
PubOnConnect(rc) ==
    /\ program = "publisher" /\ loopRunning /\ netPc = "idle" /\ conn = "pending"
    /\ IF rc = 0
       THEN conn' = "connected" /\ status' = "Connected"
       ELSE conn' = "refused" /\ status' = "Connect failed"
    /\ netPc' = AfterCall("cb_after", "idle")
    /\ UNCHANGED <<program, normVars, pubVars, guiVars, pubFrame,
                   connPc, loopRunning, closed, closeRaised>>

\* publisher on_disconnect, up to its call of update_status
PubOnDisconnect ==
    /\ program = "publisher" /\ loopRunning /\ netPc = "idle"
    /\ conn \in {"pending", "connected", "refused"}
    /\ conn' = "none" /\ status' = "Disconnected"
    /\ netPc' = AfterCall("cb_after", "idle")
    /\ UNCHANGED <<program, normVars, pubVars, guiVars, pubFrame,
                   connPc, loopRunning, closed, closeRaised>>

\* publisher update_status on the network thread: the event loop serves
\* root.after's first call
PubAfterRegistered ==
    /\ program = "publisher" /\ EventLoopServing
    /\ netPc = "cb_after"
    /\ netPc' = "cb_after_call"
    /\ UNCHANGED <<program, normVars, pubVars, guiVars, pubFrame, status,
                   connVars, closed, closeRaised>>

\* publisher update_status on the network thread: root.after makes its second
\* call: queued while root.mainloop() runs; once it has returned, RuntimeError,
\* which ends the callback
PubAfterQueued ==
    /\ program = "publisher" /\ netPc = "cb_after_call"
    /\ netPc' = AfterCall("cb_after_wait", "idle")
    /\ UNCHANGED <<program, normVars, pubVars, guiVars, pubFrame, status,
                   connVars, closed, closeRaised>>

\* the event loop serves root.after's second call and root.after returns
PubAfterReturn ==
    /\ program = "publisher" /\ EventLoopServing
    /\ netPc = "cb_after_wait"
    /\ netPc' = "idle"
    /\ UNCHANGED <<program, normVars, pubVars, guiVars, pubFrame, status,
                   connVars, closed, closeRaised>>

\* publisher: the network loop reconnecting after a lost connection
PubReconnect ==
    /\ program = "publisher" /\ loopRunning /\ netPc = "idle" /\ conn = "none"
    /\ conn' = "pending"
    /\ UNCHANGED <<program, normVars, pubVars, guiVars, subVars, status,
                   connPc, loopRunning, closed, closeRaised>>

\* the user edits the tweet text
TypeTweet(message) ==
    /\ program = "publisher" /\ GuiIdle
    /\ tweet_text # message
    /\ tweet_text' = message
    /\ UNCHANGED <<program, normVars, publishes, guiVars, subVars,
                   status, connVars, closed, closeRaised>>

\* publish_tweet, from reading the entries and the tweet text to the return of
\* client.publish(topic, payload)
PublishTweet(username_entry, hashtag_entry) ==
    /\ program = "publisher" /\ GuiIdle
    /\ LET username == Strip(username_entry)
           message  == Strip(tweet_text)
           topic    == pub_normalize_topic(Strip(hashtag_entry))
       IN  IF username = <<>>
           THEN /\ guiPc' = "dialog" /\ dialog' = "Missing username"
                /\ UNCHANGED publishes
           ELSE IF message = <<>>
           THEN /\ guiPc' = "dialog" /\ dialog' = "Empty tweet"
                /\ UNCHANGED publishes
           ELSE IF TopicRejected(topic)
           THEN /\ guiPc' = "dialog" /\ dialog' = "Empty hashtag"
                /\ UNCHANGED publishes
           ELSE /\ Len(publishes) < MaxPublishes
                /\ publishes' = Append(publishes,
                       <<topic, IF conn = "connected" THEN conn ELSE "not connected">>)
                /\ \E raises \in BOOLEAN :
                     IF raises
                     THEN guiPc' = "dialog" /\ dialog' = "Publish error"
                     ELSE guiPc' = "pub_status" /\ UNCHANGED dialog
    /\ UNCHANGED <<program, normVars, tweet_text, guiTopic, subVars, status,
                   connVars, closed, closeRaised>>

\* publish_tweet: update_status("Published to ...")
PublishStatus ==
    /\ program = "publisher" /\ guiPc = "pub_status"
    /\ status' = "Published"
    /\ guiPc' = "pub_clear"
    /\ UNCHANGED <<program, normVars, pubVars, guiTopic, dialog, subVars,
                   connVars, closed, closeRaised>>

\* publish_tweet: self.tweet_text.delete("1.0", tk.END)
PublishClear ==
    /\ program = "publisher" /\ guiPc = "pub_clear"
    /\ tweet_text' = <<>>
    /\ guiPc' = "idle"
    /\ UNCHANGED <<program, normVars, publishes, guiTopic, dialog, subVars, status,
                   connVars, closed, closeRaised>>

\* publisher: the user dismisses the messagebox; after showerror publish_tweet
\* goes on to update_status("Publish error: ...", error=True)
PubDismiss ==
    /\ program = "publisher" /\ guiPc = "dialog" /\ ~closed
    /\ status' = IF dialog = "Publish error" THEN dialog ELSE status
    /\ guiPc' = "idle" /\ dialog' = "none"
    /\ UNCHANGED <<program, normVars, pubVars, guiTopic, subVars,
                   connVars, closed, closeRaised>>

\* publisher on_close: self.client.loop_stop() is called; without a network
\* thread it returns at once; when it raises, except Exception: pass skips
\* client.disconnect()
PubCloseLoopStop ==
    /\ program = "publisher" /\ GuiIdle
    /\ \E raises \in BOOLEAN :
         IF raises
         THEN guiPc' = "close_destroy" /\ closeRaised' = TRUE
         ELSE /\ guiPc' = IF loopRunning THEN "close_join" ELSE "close_disconnect"
              /\ UNCHANGED closeRaised
    /\ UNCHANGED <<program, normVars, pubVars, guiTopic, dialog,
                   subVars, status, connVars, closed>>

\* publisher on_close: loop_stop() joins the network thread, which ends once no
\* callback is under way
PubCloseJoin ==
    /\ program = "publisher" /\ guiPc = "close_join"
    /\ netPc = "idle"
    /\ loopRunning' = FALSE
    /\ guiPc' = "close_disconnect"
    /\ UNCHANGED <<program, normVars, pubVars, guiTopic, dialog,
                   subVars, status, connPc, conn, closed, closeRaised>>

\* publisher on_close: self.client.disconnect(); when it raises,
\* except Exception: pass
PubCloseDisconnect ==
    /\ program = "publisher" /\ guiPc = "close_disconnect"
    /\ \E raises \in BOOLEAN :
         IF raises
         THEN closeRaised' = TRUE /\ UNCHANGED conn
         ELSE conn' = "stopped" /\ UNCHANGED closeRaised
    /\ guiPc' = "close_destroy"
    /\ UNCHANGED <<program, normVars, pubVars, guiTopic, dialog,
                   subVars, status, connPc, loopRunning, closed>>

\* publisher on_close: self.root.destroy()
PubCloseDestroy ==
    /\ program = "publisher" /\ guiPc = "close_destroy"
    /\ closed' = TRUE
    /\ guiPc' = "close_return"
    /\ UNCHANGED <<program, normVars, pubVars, guiTopic, dialog,
                   subVars, status, connVars, closeRaised>>

\* publisher: on_close returns and root.mainloop() returns
PubMainloopReturn ==
    /\ program = "publisher" /\ guiPc = "close_return"
    /\ guiPc' = "closed"
    /\ UNCHANGED <<program, normVars, pubVars, guiTopic, dialog,
                   subVars, status, connVars, closed, closeRaised>>

PubNext ==
    \/ PubConnectCall
    \/ PubLoopStart
    \/ \E rc \in RcValues : PubOnConnect(rc)
    \/ PubOnDisconnect
    \/ PubAfterRegistered
    \/ PubAfterQueued
    \/ PubAfterReturn
    \/ PubReconnect
    \/ \E m \in Messages : TypeTweet(m)
    \/ \E u \in Usernames, raw \in PubRawInputs : PublishTweet(u, raw)
    \/ PublishStatus
    \/ PublishClear
    \/ PubDismiss
    \/ PubCloseLoopStop
    \/ PubCloseJoin
    \/ PubCloseDisconnect
    \/ PubCloseDestroy
    \/ PubMainloopReturn

\* ------------------------------------------------- normalize_topic on its own
NormInit ==
    /\ program = "normalize"
    /\ normIn \in NormInputs /\ normOut = <<>>
    /\ guiPc = "idle" /\ guiTopic = <<>> /\ dialog = "none"
    /\ pqPc = "wait" /\ guiItem = <<>>
    /\ subscribed = {}
    /\ msg_queue = <<>> /\ messages_box = <<>> /\ putLog = <<>>
    /\ status = "Disconnected"
    /\ connPc = "connect" /\ conn = "none" /\ loopRunning = FALSE
    /\ netPc = "idle" /\ ocPending = {} /\ ocCalls = <<>> /\ ocSnapshot = {}
    /\ transport = {}
    /\ tweet_text = <<>> /\ publishes = <<>>
    /\ closed = FALSE /\ closeRaised = FALSE

\* both programs' normalize_topic applied to the same raw hashtag
Normalize ==
    /\ program = "normalize" /\ normOut = <<>>
    /\ normOut' = <<normalize_topic(normIn), pub_normalize_topic(normIn)>>
    /\ UNCHANGED <<program, normIn, pubVars, guiVars, subVars,
                   status, connVars, closed, closeRaised>>

NormSpec == NormInit /\ [][Normalize]_vars

\* ------------------------------------------------------------ specification
SubNext ==
    \/ ConnectCall
    \/ LoopStart
    \/ \E rc \in RcValues : OnConnect(rc)
    \/ AfterRegistered
    \/ AfterQueued
    \/ AfterReturn
    \/ OnConnectList
    \/ OnConnectSubscribe
    \/ OnDisconnect
    \/ Reconnect
    \/ \E t \in transport, p \in Payloads : OnMessage(t, p)
    \/ \E raw \in RawInputs : Subscribe(raw)
    \/ SubscribeAdd
    \/ SubscribeStatus
    \/ SubscribePut
    \/ \E raw \in RawInputs : Unsubscribe(raw)
    \/ UnsubscribeRemove
    \/ UnsubscribeStatus
    \/ UnsubscribePut
    \/ Dismiss
    \/ PqPoll
    \/ PqGet
    \/ PqInsert
    \/ CloseLoopStop
    \/ CloseJoin
    \/ CloseDisconnect
    \/ CloseDestroy
    \/ MainloopReturn

Init == SubInit \/ PubInit

Next == SubNext \/ PubNext

Spec == Init /\ [][Next]_vars

\* the GUI thread's own steps are taken once started, and the process_queue
\* timer (root.after(200, ...)) fires whenever the event loop is free
FairSpec ==
    /\ Init /\ [][Next]_vars
    /\ WF_vars(PqPoll \/ PqGet \/ PqInsert)
    /\ WF_vars(SubscribeAdd \/ SubscribeStatus \/ SubscribePut
                 \/ UnsubscribeRemove \/ UnsubscribeStatus \/ UnsubscribePut)

\* ------------------------------------------------------------------ helpers
TopicA == TopicPrefix \o <<"a">>
TopicTest == TopicPrefix \o <<"t", "e", "s", "t">>

IsTopic(t) == Len(t) > Len(TopicPrefix) /\ SubSeq(t, 1, Len(TopicPrefix)) = TopicPrefix

\* index of the first / last character that is not whitespace
FirstInk(s) ==
    IF \E i \in 1..Len(s) : s[i] \notin Whitespace
    THEN CHOOSE i \in 1..Len(s) :
           /\ s[i] \notin Whitespace
           /\ \A j \in 1..(i - 1) : s[j] \in Whitespace
    ELSE Len(s) + 1
LastInk(s) ==
    IF \E i \in 1..Len(s) : s[i] \notin Whitespace
    THEN CHOOSE i \in 1..Len(s) :
           /\ s[i] \notin Whitespace
           /\ \A j \in (i + 1)..Len(s) : s[j] \in Whitespace
    ELSE 0
Trimmed(s) == [i \in 1..(LastInk(s) - FirstInk(s) + 1) |-> s[FirstInk(s) + i - 1]]
ExpectedTag(h) ==
    LET c == Trimmed(h)
    IN  IF c # <<>> /\ c[1] = "#" THEN Trimmed([i \in 1..(Len(c) - 1) |-> c[i + 1]])
        ELSE c
ExpectedTopic(h) ==
    IF ExpectedTag(h) = <<>> THEN <<>> ELSE TopicPrefix \o ExpectedTag(h)

InHand == IF guiItem = <<>> THEN <<>> ELSE <<guiItem>>
OcTopics == {ocCalls[i][1] : i \in DOMAIN ocCalls}
WindowClosing ==
    guiPc \in {"close_join", "close_disconnect", "close_destroy", "close_return", "closed"}
HandlersIdle == guiPc \in {"idle", "dialog"} /\ netPc = "idle"
\* on_connect is held for ever in the update_status of its line 79: a call of
\* root.after is queued and on_close has begun (the event loop serves nothing
\* more), or root.after is between its two calls and the GUI thread is in
\* loop_stop()'s join (the second call will be queued, root.mainloop() running)
OnConnectBlocked ==
    \/ netPc \in {"oc_after", "oc_after_wait"} /\ WindowClosing
    \/ netPc = "oc_after_call" /\ guiPc = "close_join"

\* ------------------------------------------------------------------- claims
\* C1: normalize_topic (the same in both programs) trims the raw hashtag, drops
\* exactly one leading '#' and the whitespace around what is left, and returns
\* "twitter/<tag>", or "" when nothing is left; "  #Test  " gives "twitter/Test",
\* "#" gives "", and a second leading '#' stays in the tag.
C1_NormalizeTopic ==
    (program = "normalize" /\ normOut # <<>>) =>
        /\ normOut[1] = ExpectedTopic(normIn)
        /\ normOut[2] = normOut[1]
        /\ (normIn = ExTest => normOut[1] = TopicPrefix \o <<"T", "e", "s", "t">>)
        /\ (normIn = ExHash => normOut[1] = <<>>)
        /\ (normIn = <<"#", "#", "a">> => normOut[1] = TopicPrefix \o <<"#", "a">>)
C1_Witness ==
    /\ program = "normalize" /\ normIn = <<"#", "#", "a">>
    /\ normOut = <<TopicPrefix \o <<"#", "a">>, TopicPrefix \o <<"#", "a">>>>

\* C2: publish_tweet never calls client.publish while the client is not connected
\* (and so never reports "Published to ..." for such a call).
C2_PublishOnlyWhenConnected ==
    \A i \in DOMAIN publishes : publishes[i][2] = "connected"

\* C3: whenever the subscriber is connected and no handler or callback is in
\* progress, the topics the broker holds for this connection are exactly
\* self.subscribed (stated for the connections whose on_connect had no
\* client.subscribe call raise).
C3_TransportMatchesSubscribed ==
    (/\ program = "subscriber" /\ conn = "connected" /\ HandlersIdle
     /\ \A i \in DOMAIN ocCalls : ~ocCalls[i][2])
        => transport = subscribed

\* C4: on_connect with rc = 0 calls client.subscribe exactly once for each topic
\* that self.subscribed held at that reconnect (when on_connect took its list,
\* or, if its line 79 raised or is held for ever and it takes none, when it was
\* called), and for no other topic, also when one of the calls raises;
\* on_connect with rc # 0 subscribes nothing.
C4_ReconnectReplay ==
    /\ OnConnectBlocked => ocSnapshot \subseteq OcTopics
    /\ \A i, j \in DOMAIN ocCalls : ocCalls[i][1] = ocCalls[j][1] => i = j
    /\ OcTopics \cap ocPending = {}
    /\ netPc \notin {"oc_after", "oc_after_call", "oc_after_wait", "oc_list"} =>
          OcTopics \cup ocPending = ocSnapshot
    /\ netPc = "idle" => OcTopics = ocSnapshot
    /\ conn = "refused" =>
          ocCalls = <<>> /\ netPc \in {"idle", "cb_after", "cb_after_call", "cb_after_wait"}

\* C5: the lines of the messages box are the entries put into msg_queue, in the
\* order they were put, whichever thread put them and however many polling
\* rounds displayed them.
C5_DisplayOrder ==
    /\ Len(messages_box) <= Len(putLog)
    /\ \A i \in DOMAIN messages_box : messages_box[i] = putLog[i]
C5_Witness ==
    /\ Len(messages_box) >= 2
    /\ messages_box[1] = <<TopicA, NoteSubscribed>>
    /\ messages_box[2] = <<TopicA, "hi">>

\* C6: subscribe() for a topic already in self.subscribed, and unsubscribe() for
\* a topic not in it, change neither self.subscribed nor the broker's
\* subscriptions nor msg_queue, and return after their messagebox.
C6_Idempotent ==
    [][\A raw \in RawInputs :
         LET topic == normalize_topic(Strip(raw))
         IN  /\ (Subscribe(raw) /\ topic \in subscribed) =>
                    /\ UNCHANGED <<subscribed, transport, msg_queue, putLog>>
                    /\ guiPc' = "dialog" /\ dialog' = "Already subscribed"
             /\ (Unsubscribe(raw) /\ topic # <<>> /\ topic \notin subscribed) =>
                    /\ UNCHANGED <<subscribed, transport, msg_queue, putLog>>
                    /\ guiPc' = "dialog" /\ dialog' = "Not subscribed"]_vars
C6_Witness ==
    /\ guiPc = "dialog" /\ dialog = "Already subscribed"
    /\ conn = "connected" /\ TopicA \in subscribed

\* C7: a hashtag that normalizes to "" is rejected by subscribe(), unsubscribe()
\* and publish_tweet() before any client call, leaving self.subscribed,
\* msg_queue and the tweet text alone; so every topic stored in self.subscribed
\* or handed to the client is "twitter/" followed by a non-empty tag.
C7_EmptyTopicRejected ==
    /\ [](/\ \A t \in subscribed \cup transport \cup ocPending \cup OcTopics : IsTopic(t)
          /\ \A i \in DOMAIN publishes : IsTopic(publishes[i][1])
          /\ guiPc \in {"sub_add", "sub_status", "sub_put",
                       "unsub_remove", "unsub_status", "unsub_put"}
                => IsTopic(guiTopic))
    /\ [][/\ \A raw \in RawInputs :
              ((Subscribe(raw) \/ Unsubscribe(raw)) /\ normalize_topic(Strip(raw)) = <<>>) =>
                   /\ UNCHANGED <<subscribed, transport, msg_queue, putLog>>
                   /\ guiPc' = "dialog" /\ dialog' = "Empty hashtag"
          /\ \A raw \in PubRawInputs :
              ((\E u \in Usernames : PublishTweet(u, raw))
                  /\ pub_normalize_topic(Strip(raw)) = <<>>) =>
                   /\ UNCHANGED <<publishes, tweet_text, status>>
                   /\ guiPc' = "dialog"]_vars
C7_Witness ==
    /\ program = "publisher" /\ guiPc = "dialog" /\ dialog = "Empty hashtag"
    /\ Strip(tweet_text) # <<>> /\ Len(publishes) > 0

\* C8: once on_close has run (loop_stop, then disconnect, then destroy, none of
\* them raising), nothing connects, no network loop runs and no callback is in
\* progress.
C8_StopIsTerminal ==
    (closed /\ ~closeRaised) =>
        /\ conn \in {"none", "stopped"}
        /\ ~loopRunning
        /\ netPc = "idle"

\* C9: self.subscribed changes only by subscribe() adding its topic (connected
\* or not) and by unsubscribe() removing its topic; the callbacks and
\* process_queue leave it alone.
C9_SubscribedFrame ==
    [][/\ subscribed' # subscribed =>
            \/ /\ guiPc = "sub_add" /\ guiPc' = "sub_status"
               /\ subscribed' = subscribed \cup {guiTopic}
            \/ /\ guiPc = "unsub_remove" /\ guiPc' = "unsub_status"
               /\ subscribed' = subscribed \ {guiTopic}
       /\ (guiPc = "sub_add" /\ guiPc' # guiPc) => guiTopic \in subscribed'
       /\ (guiPc = "unsub_remove" /\ guiPc' # guiPc) => guiTopic \notin subscribed'
       /\ (netPc' # netPc \/ conn' # conn \/ pqPc' # pqPc \/ msg_queue' # msg_queue)
            => (subscribed' = subscribed \/ guiPc' # guiPc)]_vars
C9_Witness ==
    /\ conn = "none" /\ loopRunning /\ guiPc = "idle"
    /\ TopicA \in subscribed
    /\ \E i \in DOMAIN putLog : putLog[i] = <<TopicA, "hi">>

\* C10: every entry put into msg_queue is displayed exactly once, sooner or
\* later, unless on_close has begun (from then on the GUI thread serves no
\* timer); nothing is lost or shown twice, and process_queue's get() never finds
\* the queue empty.
C10_Conserved ==
    /\ messages_box \o InHand \o msg_queue = putLog
    /\ pqPc = "get" => msg_queue # <<>>
    /\ pqPc = "insert" <=> guiItem # <<>>
C10_NoLossNoBlock ==
    /\ []C10_Conserved
    /\ \A k \in 1..(MaxPuts + 1) :
         (Len(putLog) >= k) ~> (WindowClosing \/ Len(messages_box) >= k)
C10_Witness ==
    /\ Len(putLog) = MaxPuts /\ messages_box = putLog
    /\ \E i \in DOMAIN putLog : putLog[i][2] = "hi"
    /\ ~WindowClosing

====
